---------------------------- MODULE Spec2Model ----------------------------
(***************************************************************************)
(* Model of channelserver/src/meta.rs: the Accept-Language parser          *)
(* (preferred_language), the localized-name selector                       *)
(* (get_preferred_language_element) and the derivation of SenderData from  *)
(* a request (impl From<HttpRequest<WsChannelSessionState>>).              *)
(*                                                                         *)
(* Strings are sequences of byte values, so that splitting, lower-casing,  *)
(* slicing and the byte-wise ordering of BTreeMap<String, _> keys are      *)
(* computed and not assumed.  Localized display names (the values of a     *)
(* name map) are only ever copied by the code and are kept opaque.         *)
(***************************************************************************)
EXTENDS Integers, Sequences, FiniteSets, TLC

VARIABLES
    pc,         \* position of the running function
    alheader,   \* preferred_language: its argument
    todo,       \* preferred_language: the entries the for_each has yet to visit
    lang_tree,  \* preferred_language: the BTreeMap being filled
    i,          \* preferred_language: the counter of unweighted entries
    langs,      \* the preference list (result of preferred_language / From::from's langs)
    elements,   \* get_preferred_language_element: the name map argument
    selected,   \* get_preferred_language_element: its outcome
    req,        \* From::from: the request (headers, connection info, iploc database)
    sender      \* From::from: the SenderData under construction

vars == <<pc, alheader, todo, lang_tree, i, langs, elements, selected, req, sender>>

---------------------------------------------------------------------------
(* Bounds of the explored input space. *)

\* longest header enumerated exhaustively over Alphabet
MaxHeaderLen == 4
\* longest preference list handed to the selector
MaxPrefs == 2
\* longest subdivision sequence of a geo record
MaxSubdivisions == 2
\* number of unweighted entries of the long sample header
ManyEntries == 101

---------------------------------------------------------------------------
(* Strings as byte sequences. *)

Ascii ==
    [c \in {",", "-", ".", ";", "=", "0", "1", "5", "E", "S", "U", "Z",
            "a", "d", "e", "f", "j", "n", "q", "r", "s", "u", "z"} |->
        CASE c = "," -> 44  [] c = "-" -> 45  [] c = "." -> 46
          [] c = ";" -> 59  [] c = "=" -> 61
          [] c = "0" -> 48  [] c = "1" -> 49  [] c = "5" -> 53
          [] c = "E" -> 69  [] c = "S" -> 83  [] c = "U" -> 85  [] c = "Z" -> 90
          [] c = "a" -> 97  [] c = "d" -> 100 [] c = "e" -> 101 [] c = "f" -> 102
          [] c = "j" -> 106 [] c = "n" -> 110 [] c = "q" -> 113 [] c = "r" -> 114 [] c = "s" -> 115
          [] c = "u" -> 117 [] c = "z" -> 122]

\* the byte string spelled by a tuple of one-character strings
Str(t) == [k \in 1..Len(t) |-> Ascii[t[k]]]

Min2(a, b) == IF a <= b THEN a ELSE b

\* Ord for String: byte-wise lexicographic, a proper prefix sorts first
StrLess(a, b) ==
    \/ /\ Len(a) < Len(b)
       /\ \A k \in 1..Len(a) : a[k] = b[k]
    \/ \E k \in 1..Min2(Len(a), Len(b)) :
          /\ \A j \in 1..(k - 1) : a[j] = b[j]
          /\ a[k] < b[k]

\* str::contains with a one-byte pattern
contains(s, c) == \E k \in 1..Len(s) : s[k] = c

\* str::to_ascii_lowercase
to_ascii_lowercase(s) ==
    [k \in 1..Len(s) |-> IF s[k] >= 65 /\ s[k] <= 90 THEN s[k] + 32 ELSE s[k]]

\* split as it would be if trailing empty pieces were dropped
split_no_trailing(s, c) ==
    LET seps == {k \in 1..Len(s) : s[k] = c}
        sep(n) == IF n = 0 THEN 0
                  ELSE IF n > Cardinality(seps) THEN Len(s) + 1
                  ELSE CHOOSE p \in seps : Cardinality({q \in seps : q < p}) = n - 1
        all == [n \in 1..(Cardinality(seps) + 1) |-> SubSeq(s, sep(n - 1) + 1, sep(n) - 1)]
        kept == {n \in 1..Len(all) : \E k \in n..Len(all) : all[k] # <<>>}
    IN  IF kept = {} THEN <<all[1]>> ELSE SubSeq(all, 1, Cardinality(kept))

\* str::split(pat).collect(): every separator splits, empty pieces are kept
split(s, c) ==
    LET seps == {k \in 1..Len(s) : s[k] = c}
        \* position of the n-th separator; 0 before the first, Len(s)+1 after the last
        sep(n) == IF n = 0 THEN 0
                  ELSE IF n > Cardinality(seps) THEN Len(s) + 1
                  ELSE CHOOSE p \in seps : Cardinality({q \in seps : q < p}) = n - 1
    IN  [n \in 1..(Cardinality(seps) + 1) |-> SubSeq(s, sep(n - 1) + 1, sep(n) - 1)]

\* decimal digits of a natural number
RECURSIVE Decimal(_)
Decimal(n) == IF n < 10 THEN <<48 + n>> ELSE Decimal(n \div 10) \o <<48 + (n % 10)>>

\* format!("q=1.{:02}", i): zero-padded to at least two digits
format_key(n) ==
    Str(<<"q", "=", "1", ".">>) \o (IF n < 10 THEN <<48>> \o Decimal(n) ELSE Decimal(n))

---------------------------------------------------------------------------
(* BTreeMap<String, String> as a function on its key set. *)

EmptyMap == [k \in {} |-> <<>>]

insert(m, k, v) == [x \in (DOMAIN m) \cup {k} |-> IF x = k THEN v ELSE m[x]]

contains_key(m, k) == k \in DOMAIN m

\* BTreeMap::values().collect(): the values in ascending key order
values(m) ==
    LET below(k) == Cardinality({x \in DOMAIN m : StrLess(x, k)})
    IN  [n \in 1..Cardinality(DOMAIN m) |-> m[CHOOSE k \in DOMAIN m : below(k) = n - 1]]

reverse(s) == [k \in 1..Len(s) |-> s[Len(s) + 1 - k]]

---------------------------------------------------------------------------
(* preferred_language *)

default_lang == Str(<<"e", "n">>)

\* the closure as it would be with l.splitn(2, ";"): the key is the whole rest
for_each_entry_split_once(acc, l) ==
    IF acc.panicked THEN acc
    ELSE IF contains(l, 59)
    THEN LET p == CHOOSE k \in 1..Len(l) : l[k] = 59 /\ \A j \in 1..(k - 1) : l[j] # 59
             lang == to_ascii_lowercase(SubSeq(l, 1, p - 1))
             pref == to_ascii_lowercase(SubSeq(l, p + 1, Len(l)))
         IN  [acc EXCEPT !.lang_tree = insert(acc.lang_tree, pref, lang)]
    ELSE [acc EXCEPT !.lang_tree = insert(acc.lang_tree,
                                          format_key(acc.i),
                                          to_ascii_lowercase(l)),
                     !.i = acc.i + 1]

\* the closure of the for_each over one entry l; acc carries lang_tree, i and
\* whether an index went out of bounds (a panic)
for_each_entry(acc, l) ==
    IF acc.panicked THEN acc
    ELSE IF contains(l, 59)
    THEN LET weight == split(l, 59)
         IN  IF Len(weight) < 2
             THEN [acc EXCEPT !.panicked = TRUE]
             ELSE LET lang == to_ascii_lowercase(weight[1])
                      pref == to_ascii_lowercase(weight[2])
                  IN  [acc EXCEPT !.lang_tree = insert(acc.lang_tree, pref, lang)]
    ELSE [acc EXCEPT !.lang_tree = insert(acc.lang_tree,
                                          format_key(acc.i),
                                          to_ascii_lowercase(l)),
                     !.i = acc.i + 1]

RECURSIVE fold_entries(_, _)
fold_entries(acc, ls) ==
    IF ls = <<>> THEN acc
    ELSE fold_entries(for_each_entry(acc, Head(ls)), Tail(ls))

\* lines 39-54: lang_tree and i after alheader.split(",").for_each(..)
build_lang_tree(h) ==
    fold_entries([lang_tree |-> EmptyMap, i |-> 0, panicked |-> FALSE], split(h, 44))

\* the collection as it would be without langs.reverse()
collect_langs_unreversed(tree) == Append(values(tree), default_lang)

\* lines 55-58: values, reversed, with the default pushed
collect_langs(tree) == Append(reverse(values(tree)), default_lang)

preferred_language(h) == collect_langs(build_lang_tree(h).lang_tree)

---------------------------------------------------------------------------
(* Option / Result values and the outcome of a call that may panic. *)

None == [tag |-> "None"]
Some(v) == [tag |-> "Some", val |-> v]
Panic == [tag |-> "Panic"]

is_some(o) == o.tag = "Some"

---------------------------------------------------------------------------
(* get_preferred_language_element *)

\* str::split_at(mid) panics when mid is past the end or inside a UTF-8
\* sequence (the byte after the cut is a continuation byte)
split_at_panics(s, mid) ==
    \/ mid > Len(s)
    \/ mid < Len(s) /\ s[mid + 1] >= 128 /\ s[mid + 1] <= 191

\* lines 67-79: the loop over langs; Some(value), None, or Panic
RECURSIVE get_preferred_language_element(_, _)
get_preferred_language_element(ls, names) ==
    IF ls = <<>> THEN None
    ELSE LET lang == Head(ls)
         IN  IF contains_key(names, lang)
             THEN Some(names[lang])
             ELSE IF contains(lang, 45)
             THEN IF split_at_panics(lang, 2)
                  THEN Panic
                  ELSE LET base == SubSeq(lang, 1, 2)
                       IN  IF contains_key(names, base)
                           THEN Some(names[base])
                           ELSE get_preferred_language_element(Tail(ls), names)
             ELSE get_preferred_language_element(Tail(ls), names)

---------------------------------------------------------------------------
(* From<HttpRequest<WsChannelSessionState>> for SenderData *)

\* SenderData::default()
default_sender == [ua |-> None, addr |-> None, city |-> None, region |-> None, country |-> None]

\* HeaderValue::to_str: Some(text) when every byte is visible ASCII or a tab
to_str(bytes) ==
    IF \A k \in 1..Len(bytes) : (bytes[k] >= 32 /\ bytes[k] < 127) \/ bytes[k] = 9
    THEN Some(bytes)
    ELSE None

unwrap_or(o, d) == IF is_some(o) THEN o.val ELSE d

\* the list as it would be if an absent header were parsed as an empty one
resolve_langs_absent_as_empty(r) ==
    preferred_language(
        IF is_some(r.accept_language) THEN unwrap_or(to_str(r.accept_language.val), <<>>)
        ELSE <<>>)

\* lines 88-91: the preference list of a request
resolve_langs(r) ==
    IF ~is_some(r.accept_language)
    THEN <<default_lang>>
    ELSE preferred_language(unwrap_or(to_str(r.accept_language.val), <<>>))

\* lines 94-103: the user agent, unset when absent or not text
resolve_ua(r) ==
    IF ~is_some(r.user_agent) THEN None ELSE to_str(r.user_agent.val)

\* lines 104-107: the remote address as reported by the connection
resolve_addr(r) == r.remote

\* the address strings str::parse accepts as an IP address
IpLiterals == {"203.0.113.7"}

\* line 109: addr.parse() succeeds
parse_ok(a) == a \in IpLiterals

\* the lookup as it would be with addr.parse().unwrap_or(<some fixed address>)
geo_lookup_fallback_address(r, addr) ==
    IF is_some(addr)
    THEN r.iploc[IF parse_ok(addr.val) THEN addr.val ELSE CHOOSE a \in IpLiterals : TRUE]
    ELSE None

\* lines 108-110: the record the lookup yields, or None when there is no
\* address, the address does not parse, or the lookup fails
geo_lookup(r, addr) ==
    IF is_some(addr) /\ parse_ok(addr.val) THEN r.iploc[addr.val] ELSE None

\* lines 149-152 and 155-158: x.and_then(|c| c.names)
and_then_names(x) == IF is_some(x) THEN x.val.names ELSE None

city_names(rec) == and_then_names(rec.city)

country_names(rec) == and_then_names(rec.country)

\* the names as they would be if the loop ran over the subdivisions themselves:
\* those of the first subdivision that has any
region_names_first_named(rec) ==
    IF is_some(rec.subdivisions)
          /\ \E n \in 1..Len(rec.subdivisions.val) : is_some(rec.subdivisions.val[n].names)
    THEN LET v == rec.subdivisions.val
             n == CHOOSE k \in 1..Len(v) :
                      is_some(v[k].names) /\ \A j \in 1..(k - 1) : ~is_some(v[j].names)
         IN  v[n].names
    ELSE None

\* lines 162-169: the names of the first subdivision, if any
region_names(rec) ==
    IF is_some(rec.subdivisions) /\ Len(rec.subdivisions.val) > 0
    THEN rec.subdivisions.val[1].names
    ELSE None

\* a field after `if let Some(names) = .. { field = selector(&langs, names) }`
select_field(old, ls, names) ==
    IF is_some(names) THEN get_preferred_language_element(ls, names.val) ELSE old

---------------------------------------------------------------------------
(* Inputs of preferred_language. *)

\* bytes of the exhaustively enumerated headers: , ; - E e z
Alphabet == {44, 59, 45, 69, 101, 122}

BoundedHeaders == UNION {[1..n -> Alphabet] : n \in 0..MaxHeaderLen}

\* "en-US,es;q=0.1,en;q=0.5", the header of test_preferred_language
TestHeader ==
    Str(<<"e", "n", "-", "U", "S", ",", "e", "s", ";", "q", "=", "0", ".", "1", ",",
          "e", "n", ";", "q", "=", "0", ".", "5">>)

\* "en;": nothing after the ';'
HeaderNoWeight == Str(<<"e", "n", ";">>)

\* ";q=0.5": nothing before the ';'
HeaderNoTag == Str(<<";", "q", "=", "0", ".", "5">>)

\* "e;;,z;": two entries that differ after their first ';'
HeaderTwoSeparators == Str(<<"e", ";", ";", ",", "z", ";">>)

\* "fr;q=1.000,en": a weight of 1 written with three decimals
HeaderWeightOne == Str(<<"f", "r", ";", "q", "=", "1", ".", "0", "0", "0", ",", "e", "n">>)

\* "e,z,e,z,...": ManyEntries unweighted entries
HeaderManyEntries ==
    [k \in 1..(2 * ManyEntries - 1) |->
        IF k % 2 = 0 THEN 44 ELSE IF k % 4 = 1 THEN 101 ELSE 122]

SampleHeaders ==
    {TestHeader, HeaderNoWeight, HeaderNoTag, HeaderTwoSeparators, HeaderWeightOne,
     HeaderManyEntries}

Headers == BoundedHeaders \cup SampleHeaders

---------------------------------------------------------------------------
(* Inputs of get_preferred_language_element. *)

S_en == Str(<<"e", "n">>)
S_en_us == Str(<<"e", "n", "-", "u", "s">>)
S_es == Str(<<"e", "s">>)
S_fu == Str(<<"f", "u">>)
S_de == Str(<<"d", "e">>)
S_fr == Str(<<"f", "r">>)
S_ja == Str(<<"j", "a">>)
S_dash == Str(<<"-">>)
S_empty == <<>>

\* the localized display name a map holds under key k (opaque to the code)
NameFor(k) ==
    CASE k = S_en -> "California"
      [] k = S_de -> "Kalifornien"
      [] k = S_fr -> "Californie"
      [] k = S_ja -> "Kariforunia-shu"
      [] k = S_es -> "California (es)"
      [] k = S_en_us -> "California (en-us)"
      [] k = S_empty -> "California ()"
      [] OTHER -> "California (?)"

NameMap(keys) == [k \in keys |-> NameFor(k)]

\* the elements of test_get_preferred_language_element
TestElements == NameMap({S_de, S_en, S_fr, S_ja})

\* the langs of test_get_preferred_language_element
TestLangs == <<S_en_us, S_en, S_es, S_en>>

Tags == {S_en, S_en_us, S_es, S_fu, S_dash, S_empty}

PrefLists == UNION {[1..n -> Tags] : n \in 0..MaxPrefs} \cup {TestLangs}

SelectorMaps == {NameMap(ks) : ks \in SUBSET {S_en, S_en_us, S_es, S_empty}} \cup {TestElements}

---------------------------------------------------------------------------
(* Inputs of From::from. *)

\* a header value that is not text
NotText == <<255>>

AcceptLanguageHeaders == {None, Some(S_en), Some(NotText), Some(S_dash), Some(TestHeader)}

UserAgentHeaders == {None, Some(NotText), Some(Str(<<"z">>))}

RemoteAddrs == {None, Some("not-an-ip")} \cup {Some(a) : a \in IpLiterals}

GeoMaps == {NameMap(ks) : ks \in {{}, {S_en}, {S_empty, S_en}, {S_es}}}

OptNames == {None} \cup {Some(m) : m \in GeoMaps}

\* geoip2::model::City / Country / Subdivision, reduced to their names
Places == {[names |-> n] : n \in OptNames}

OptPlace == {None} \cup {Some(x) : x \in Places}

OptSubdivisions ==
    {None} \cup {Some(v) : v \in UNION {[1..n -> Places] : n \in 0..MaxSubdivisions}}

\* geoip2::City, reduced to the fields From::from reads
GeoRecords == [city : OptPlace, country : OptPlace, subdivisions : OptSubdivisions]

LookupResults == {None} \cup {Some(rec) : rec \in GeoRecords}

Requests ==
    [accept_language : AcceptLanguageHeaders,
     user_agent : UserAgentHeaders,
     remote : RemoteAddrs,
     iploc : [IpLiterals -> LookupResults]]

---------------------------------------------------------------------------
(* preferred_language applied to a header. *)

InitParse ==
    /\ pc = "start"
    /\ alheader \in Headers
    /\ todo = <<>>
    /\ lang_tree = EmptyMap
    /\ i = 0
    /\ langs = <<>>
    /\ elements = EmptyMap
    /\ selected = None
    /\ req = None
    /\ sender = default_sender

\* line 41: alheader.split(",")
SplitHeader ==
    /\ pc = "start"
    /\ todo' = split(alheader, 44)
    /\ pc' = "for_each"
    /\ UNCHANGED <<alheader, lang_tree, i, langs, elements, selected, req, sender>>

\* lines 41-54: the closure applied to the next entry
ForEachEntry ==
    /\ pc = "for_each"
    /\ todo # <<>>
    /\ LET acc == for_each_entry([lang_tree |-> lang_tree, i |-> i, panicked |-> FALSE],
                                 Head(todo))
       IN  /\ lang_tree' = acc.lang_tree
           /\ i' = acc.i
           /\ pc' = IF acc.panicked THEN "panic" ELSE "for_each"
    /\ todo' = Tail(todo)
    /\ UNCHANGED <<alheader, langs, elements, selected, req, sender>>

\* lines 55-58
CollectLangs ==
    /\ pc = "for_each"
    /\ todo = <<>>
    /\ langs' = collect_langs(lang_tree)
    /\ pc' = "collected"
    /\ UNCHANGED <<alheader, todo, lang_tree, i, elements, selected, req, sender>>

NextParse == SplitHeader \/ ForEachEntry \/ CollectLangs

SpecParse == InitParse /\ [][NextParse]_vars

---------------------------------------------------------------------------
(* get_preferred_language_element applied to a list and a map. *)

InitSelect ==
    /\ pc = "select"
    /\ alheader = <<>>
    /\ todo = <<>>
    /\ lang_tree = EmptyMap
    /\ i = 0
    /\ langs \in PrefLists
    /\ elements \in SelectorMaps
    /\ selected = None
    /\ req = None
    /\ sender = default_sender

\* lines 63-80
SelectElement ==
    /\ pc = "select"
    /\ selected' = get_preferred_language_element(langs, elements)
    /\ pc' = IF selected' = Panic THEN "panic" ELSE "selected"
    /\ UNCHANGED <<alheader, todo, lang_tree, i, langs, elements, req, sender>>

NextSelect == SelectElement

SpecSelect == InitSelect /\ [][NextSelect]_vars

---------------------------------------------------------------------------
(* From::from applied to a request. *)

Init ==
    /\ pc = "langs"
    /\ alheader = <<>>
    /\ todo = <<>>
    /\ lang_tree = EmptyMap
    /\ i = 0
    /\ langs = <<>>
    /\ elements = EmptyMap
    /\ selected = None
    /\ req \in Requests
    /\ sender = default_sender

\* the record the geo lookup of the request yields, once the address is set
looked_up == geo_lookup(req, sender.addr)

\* lines 88-91
ResolveLangs ==
    /\ pc = "langs"
    /\ langs' = resolve_langs(req)
    /\ pc' = "ua"
    /\ UNCHANGED <<alheader, todo, lang_tree, i, elements, selected, req, sender>>

\* lines 94-103
ResolveUa ==
    /\ pc = "ua"
    /\ sender' = [sender EXCEPT !.ua = resolve_ua(req)]
    /\ pc' = "addr"
    /\ UNCHANGED <<alheader, todo, lang_tree, i, langs, elements, selected, req>>

\* lines 104-107
ResolveAddr ==
    /\ pc = "addr"
    /\ sender' = [sender EXCEPT !.addr = resolve_addr(req)]
    /\ pc' = "geo"
    /\ UNCHANGED <<alheader, todo, lang_tree, i, langs, elements, selected, req>>

\* lines 108-110: no address, no parse or no record
SkipGeo ==
    /\ pc = "geo"
    /\ ~is_some(looked_up)
    /\ pc' = "return"
    /\ UNCHANGED <<alheader, todo, lang_tree, i, langs, elements, selected, req, sender>>

\* one of the three selections of lines 149-169 and where it leads
SetField(at, field, names, then) ==
    /\ pc = at
    /\ is_some(looked_up)
    /\ LET got == select_field(sender[field], langs, names)
       IN  IF got = Panic
           THEN pc' = "panic" /\ UNCHANGED sender
           ELSE pc' = then /\ sender' = [sender EXCEPT ![field] = got]
    /\ UNCHANGED <<alheader, todo, lang_tree, i, langs, elements, selected, req>>

\* lines 149-154
SetCity == SetField("geo", "city", city_names(looked_up.val), "country")

\* lines 155-160
SetCountry == SetField("country", "country", country_names(looked_up.val), "region")

\* lines 162-169
SetRegion == SetField("region", "region", region_names(looked_up.val), "return")

\* line 173
Return ==
    /\ pc = "return"
    /\ pc' = "done"
    /\ UNCHANGED <<alheader, todo, lang_tree, i, langs, elements, selected, req, sender>>

Next ==
    \/ ResolveLangs
    \/ ResolveUa
    \/ ResolveAddr
    \/ SkipGeo
    \/ SetCity
    \/ SetCountry
    \/ SetRegion
    \/ Return

Spec == Init /\ [][Next]_vars

---------------------------------------------------------------------------
(* What a header says, read off its text position by position. *)

IsWeighted(l) == contains(l, 59)

FirstSemi(l) == CHOOSE k \in 1..Len(l) : l[k] = 59 /\ \A j \in 1..(k - 1) : l[j] # 59

\* the text before the first ';'
TagOf(l) == to_ascii_lowercase(SubSeq(l, 1, FirstSemi(l) - 1))

\* the whole text after the first ';'
RestOf(l) == SubSeq(l, FirstSemi(l) + 1, Len(l))

\* the text between the first ';' and the next one, or the end of the entry
SegmentOf(l) ==
    LET r == RestOf(l)
    IN  to_ascii_lowercase(IF contains(r, 59) THEN SubSeq(r, 1, FirstSemi(r) - 1) ELSE r)

UnweightedBefore(es, j) == Cardinality({n \in 1..(j - 1) : ~IsWeighted(es[n])})

\* the key under which each entry of es is recorded
RecordedKeys(es) ==
    [j \in 1..Len(es) |->
        IF IsWeighted(es[j]) THEN SegmentOf(es[j]) ELSE format_key(UnweightedBefore(es, j))]

\* the tag recorded for each entry of es
RecordedTags(es) ==
    [j \in 1..Len(es) |->
        IF IsWeighted(es[j]) THEN TagOf(es[j]) ELSE to_ascii_lowercase(es[j])]

\* entry j is not replaced by a later entry recorded under the same key
Survives(keys, j) == \A n \in (j + 1)..Len(keys) : keys[n] # keys[j]

Range(f) == {f[x] : x \in DOMAIN f}

Positions(seq, x) == {p \in 1..Len(seq) : seq[p] = x}

\* some occurrence of x comes before some occurrence of y
Precedes(seq, x, y) == \E p \in Positions(seq, x) : \E q \in Positions(seq, y) : p < q

---------------------------------------------------------------------------
(* Claims about preferred_language, checked under SpecParse. *)

\* C1: for every header (the empty one, an entry with an empty tag, an entry
\* with nothing after its ';' included) preferred_language runs to its end
\* without a panic and returns a non-empty list whose last element is "en";
\* a missing weight is recorded as the key "", a missing tag as the tag "".
C1_NeverFailsEndsWithDefault ==
    /\ pc \in {"start", "for_each", "collected"}
    /\ pc = "collected" =>
          LET es == split(alheader, 44)
              keys == RecordedKeys(es)
          IN  /\ Len(langs) >= 1
              /\ langs[Len(langs)] = default_lang
              /\ \A j \in 1..Len(es) :
                    IsWeighted(es[j]) =>
                      /\ FirstSemi(es[j]) = Len(es[j]) => <<>> \in DOMAIN lang_tree
                      /\ (FirstSemi(es[j]) = 1 /\ Survives(keys, j)) =>
                            lang_tree[keys[j]] = <<>>

C1_Witness ==
    /\ pc = "collected"
    /\ alheader = HeaderNoWeight
    /\ lang_tree = [k \in {<<>>} |-> S_en]
    /\ langs = <<S_en, S_en>>

\* C2: the result lists the recorded tags in descending byte order of their
\* keys (the lower-cased weight text of a weighted entry, "q=1.NN" for the
\* NN-th unweighted one), then "en"; "en-US,es;q=0.1,en;q=0.5" gives
\* ["en-us", "en", "es", "en"].
C2_DescendingKeyOrder ==
    pc = "collected" =>
        /\ DOMAIN lang_tree = Range(RecordedKeys(split(alheader, 44)))
        /\ Len(langs) = Cardinality(DOMAIN lang_tree) + 1
        /\ langs[Len(langs)] = default_lang
        /\ \A k \in DOMAIN lang_tree :
              langs[1 + Cardinality({x \in DOMAIN lang_tree : StrLess(k, x)})] = lang_tree[k]
        /\ alheader = TestHeader => langs = <<S_en_us, S_en, S_es, S_en>>

C2_Witness ==
    /\ pc = "collected"
    /\ alheader = TestHeader
    /\ langs = <<S_en_us, S_en, S_es, S_en>>

\* C8 (as claimed): the key of every unweighted entry sorts after the key of
\* every weighted entry, so every unweighted tag comes before every weighted
\* tag in the result, and the unweighted tags come later-declared first.
C8_UnweightedSortLast ==
    pc = "collected" =>
        LET es == split(alheader, 44)
            keys == RecordedKeys(es)
            tags == RecordedTags(es)
        IN  \A j \in 1..Len(es) : \A n \in 1..Len(es) :
                /\ (IsWeighted(es[j]) /\ ~IsWeighted(es[n])) =>
                      /\ StrLess(keys[j], keys[n])
                      /\ Precedes(langs, tags[n], tags[j])
                /\ (~IsWeighted(es[j]) /\ ~IsWeighted(es[n]) /\ j < n) =>
                      /\ StrLess(keys[j], keys[n])
                      /\ tags[j] # tags[n] => Precedes(langs, tags[n], tags[j])

\* C9 (as claimed): the key of a weighted entry is the whole lower-cased text
\* after its first ';', so two entries that differ there keep separate keys
\* and, in a header of just those two, both tags are in the result.
C9_KeyIsWholeRest ==
    pc = "collected" =>
        LET es == split(alheader, 44)
            rest(j) == to_ascii_lowercase(RestOf(es[j]))
        IN  /\ \A j \in 1..Len(es) : IsWeighted(es[j]) => rest(j) \in DOMAIN lang_tree
            /\ (/\ Len(es) = 2
                /\ IsWeighted(es[1])
                /\ IsWeighted(es[2])
                /\ rest(1) # rest(2)) =>
                  /\ Positions(langs, TagOf(es[1])) # {}
                  /\ Positions(langs, TagOf(es[2])) # {}

\* C9 (amended): an entry is split at every ';': its tag is the lower-cased
\* text before the first ';' and its key the lower-cased text between the
\* first ';' and the next one (the whole rest when there is no other); what
\* follows a second ';' is dropped.  The map holds, under each key, the tag of
\* the last entry recorded under it, and every such tag is in the result.
C9_KeyIsSecondPiece ==
    pc = "collected" =>
        LET es == split(alheader, 44)
            keys == RecordedKeys(es)
            tags == RecordedTags(es)
        IN  /\ DOMAIN lang_tree = Range(keys)
            /\ \A j \in 1..Len(es) :
                  Survives(keys, j) =>
                      /\ lang_tree[keys[j]] = tags[j]
                      /\ Positions(langs, tags[j]) # {}

C9_Witness ==
    /\ pc = "collected"
    /\ alheader = HeaderTwoSeparators
    /\ lang_tree = [k \in {<<>>} |-> <<122>>]
    /\ langs = <<<<122>>, S_en>>

---------------------------------------------------------------------------
(* Claims about get_preferred_language_element, checked under SpecSelect. *)

\* a tag matches a map exactly, or by its first two characters when it has a '-'
BaseOf(t) == SubSeq(t, 1, 2)

MatchesExactly(t, m) == t \in DOMAIN m

MatchesBase(t, m) == contains(t, 45) /\ Len(t) >= 2 /\ BaseOf(t) \in DOMAIN m

\* the value the scan of C3 chooses
Scanned(ls, m) ==
    LET hits == {p \in 1..Len(ls) : MatchesExactly(ls[p], m) \/ MatchesBase(ls[p], m)}
    IN  IF hits = {} THEN None
        ELSE LET p == CHOOSE q \in hits : \A r \in hits : q <= r
             IN  IF MatchesExactly(ls[p], m) THEN Some(m[ls[p]]) ELSE Some(m[BaseOf(ls[p])])

\* C3 (as claimed): for every list and map the selector returns the value of
\* the first tag that matches exactly or by its base, the exact value first,
\* and returns nothing exactly when no tag matches.
C3_ReturnsFirstMatch ==
    pc # "select" => selected = Scanned(langs, elements)

---------------------------------------------------------------------------
(* Claims about From::from, checked under Spec. *)

GeoOf(sd) == [city |-> sd.city, country |-> sd.country, region |-> sd.region]

\* city, country and region as selected from a record with the list ls
GeoWith(ls, rec) ==
    [city |-> select_field(None, ls, city_names(rec)),
     country |-> select_field(None, ls, country_names(rec)),
     region |-> select_field(None, ls, region_names(rec))]

\* C4 (as claimed): no request makes the derivation fail.
C4_NoFatalPath == pc # "panic"

\* C5: with a remote address that does not parse (or a lookup that yields no
\* record) the derivation completes with city, region and country unset,
\* whatever the database holds; addr is the raw remote string and ua is what
\* the user-agent header alone gives.
C5_NoGeoWithoutAddress ==
    LET unparsable == is_some(req.remote) /\ req.remote.val \notin IpLiterals
        norecord == is_some(req.remote) /\ req.remote.val \in IpLiterals
                        /\ req.iploc[req.remote.val] = None
    IN  (unparsable \/ norecord) =>
          /\ pc # "panic"
          /\ sender.city = None /\ sender.region = None /\ sender.country = None
          /\ pc = "done" =>
                /\ sender.addr = req.remote
                /\ sender.ua = IF req.user_agent = None \/ req.user_agent = Some(NotText)
                               THEN None
                               ELSE req.user_agent

C5_Witness ==
    /\ pc = "done"
    /\ req.remote = Some("not-an-ip")
    /\ \E a \in IpLiterals :
          /\ is_some(req.iploc[a])
          /\ req.iploc[a].val.city = Some([names |-> Some(NameMap({S_en}))])
    /\ req.user_agent = Some(Str(<<"z">>))
    /\ sender = [default_sender EXCEPT !.ua = Some(Str(<<"z">>)), !.addr = Some("not-an-ip")]

\* C6: the selector gives the same result for the list of a request without
\* the header (["en"]) and for the list parsed from the header "en", for
\* every name map; so both requests get the same city, region and country.
C6_AbsentHeaderIsEn ==
    (pc = "done" /\ is_some(looked_up)) =>
          /\ \A m \in GeoMaps :
                get_preferred_language_element(resolve_langs([accept_language |-> None]), m)
                  = get_preferred_language_element(
                        resolve_langs([accept_language |-> Some(S_en)]), m)
          /\ req.accept_language = None =>
                GeoOf(sender) = GeoWith(preferred_language(S_en), looked_up.val)
          /\ req.accept_language = Some(S_en) =>
                GeoOf(sender) = GeoWith(<<S_en>>, looked_up.val)

C6_Witness ==
    /\ pc = "done"
    /\ req.accept_language = None
    /\ langs = <<S_en>>
    /\ is_some(looked_up)
    /\ sender.city = Some("California")
    /\ sender.country = None

\* C7 (as claimed): a header value that is not text is treated as an absent
\* header: city, region and country are those selected with ["en"], for
\* every geo record, the keys of its maps being any strings.
C7_UndecodableIsAbsent ==
    (pc = "done" /\ is_some(looked_up) /\ req.accept_language = Some(NotText)) =>
        GeoOf(sender) = GeoWith(<<S_en>>, looked_up.val)

\* C10: when the lookup yields a record and the derivation returns, city,
\* country and region are each the selector's result on their own name map
\* with the resolved list, unset when that map is absent or nothing is
\* selected, whatever the other maps are; region reads the first subdivision
\* only and is unset when that one has no name map.
C10_FieldsIndependent ==
    (pc = "done" /\ is_some(looked_up)) =>
        LET rec == looked_up.val
            own(place) ==
                IF place = None \/ place.val.names = None THEN None
                ELSE get_preferred_language_element(langs, place.val.names.val)
        IN  /\ langs = resolve_langs(req)
            /\ sender.city = own(rec.city)
            /\ sender.country = own(rec.country)
            /\ sender.region =
                  IF rec.subdivisions = None THEN None
                  ELSE IF rec.subdivisions.val = <<>> THEN None
                  ELSE own(Some(rec.subdivisions.val[1]))

C10_Witness ==
    /\ pc = "done"
    /\ is_some(looked_up)
    /\ looked_up.val.subdivisions =
          Some(<<[names |-> None], [names |-> Some(NameMap({S_en}))]>>)
    /\ looked_up.val.country = Some([names |-> Some(NameMap({S_es}))])
    /\ langs = <<S_en>>
    /\ sender.region = None
    /\ sender.country = None
    /\ sender.city = Some("California")

===========================================================================
